---- MODULE Spec2Model ----
(***************************************************************************)
(* Model of src/app.py: the bootstrap agent.  The main coroutine (main,    *)
(* start_services) creates the working directory, starts the HTTP server   *)
(* thread, downloads the binaries concurrently, marks them executable and  *)
(* launches them as background processes; the server thread (run_server)   *)
(* binds the listener and handles requests.                                *)
(*                                                                         *)
(* The asyncio event loop runs ready tasks first-in first-out, so the      *)
(* tasks a gather creates take their first step in the order of creation;  *)
(* after that they progress in any order.  The server thread interleaves   *)
(* freely with the main coroutine.  A user interrupt (Ctrl-C) is not       *)
(* modelled: the model covers the runs nobody interrupts.                  *)
(***************************************************************************)
EXTENDS Integers, Sequences, FiniteSets, TLC

\* Number of requests the clients send to the listener in one run.
MaxRequests == 2

\* The four binaries of Config (NPM_BIN, PHP_BIN, WEB_BIN, BOT_BIN), by file name.
Files == {"web", "bot", "npm", "php"}

\* Values an environment variable can hold: unset or empty, or some text.
EnvValues == {"", "x"}

VARIABLES
    env,                \* os.environ: a function from the names that are set
    machine,            \* platform.machine(), a sequence of characters
    config,             \* the Config singleton; Unresolved until line 64 has run
    dirExists,          \* config.FILE_PATH exists
    fs,                 \* file name -> "absent" | "plain" | "exec"
    pc,                 \* position of the main coroutine
    files_to_download,  \* sequence of [name, url], in dict insertion order
    dl,                 \* file name -> state of its download_file task
    tasks,              \* names of the run_background_process tasks, in order
    launch,             \* file name -> state of its run_background_process task
    server,             \* state of the server thread
    req,                \* the connection the server is handling, if any
    accepted,           \* number of connections accepted
    handled,            \* number of requests do_GET has returned from
    responded,          \* number of requests answered with a response
    cmd,                \* file name -> state of the command its launch runs
    nRequests,          \* file name -> number of GET requests issued for it
    nSpawns             \* file name -> number of create_subprocess_shell calls

vars == <<env, machine, config, dirExists, fs, pc, files_to_download, dl, tasks,
          launch, server, req, accepted, handled, responded, cmd, nRequests,
          nSpawns>>

------------------------------------------------------------------------------
\* Strings the code inspects character by character are sequences of characters.

UpperChars == <<"A", "B", "C", "D", "E", "F", "G", "H", "I", "J", "K", "L", "M",
                "N", "O", "P", "Q", "R", "S", "T", "U", "V", "W", "X", "Y", "Z">>
LowerChars == <<"a", "b", "c", "d", "e", "f", "g", "h", "i", "j", "k", "l", "m",
                "n", "o", "p", "q", "r", "s", "t", "u", "v", "w", "x", "y", "z">>

\* str.lower() on one character.
LowerChar(c) ==
    IF \E i \in 1..Len(UpperChars) : UpperChars[i] = c
    THEN LowerChars[CHOOSE i \in 1..Len(UpperChars) : UpperChars[i] = c]
    ELSE c

\* str.lower()
Lower(s) == [i \in 1..Len(s) |-> LowerChar(s[i])]

\* pat in s
Contains(s, pat) ==
    \E i \in 1..(Len(s) - Len(pat) + 1) : SubSeq(s, i, i + Len(pat) - 1) = pat

aarch64 == <<"a", "a", "r", "c", "h", "6", "4">>

\* Machine strings platform.machine() is run with.
Machines ==
    { aarch64,
      <<"A", "A", "r", "c", "h", "6", "4">>,
      <<"a", "a", "r", "c", "h", "6", "4", "_", "b", "e">>,
      <<"x", "8", "6", "_", "6", "4">>,
      <<"a", "r", "m", "6", "4">>,
      <<>> }

\* Mutant of Architecture: the comparison is exact.
ArchitectureExact(m) == IF m = aarch64 THEN "arm" ELSE "amd"

\* architecture = 'arm' if 'aarch64' in platform.machine().lower() else 'amd'
Architecture(m) == IF Contains(Lower(m), aarch64) THEN "arm" ELSE "amd"

\* f"https://{architecture}64.ssss.nyc.mn/<key>"
Url(architecture, key) == "https://" \o architecture \o "64.ssss.nyc.mn/" \o key

\* Mutant of FilesToDownload: both agents are requested when monitoring is on.
FilesToDownloadBothAgents(cfg, architecture) ==
    <<[name |-> "web", url |-> Url(architecture, "web")],
      [name |-> "bot", url |-> Url(architecture, "2go")]>>
    \o (IF cfg.NEZHA_SERVER # "" /\ cfg.NEZHA_KEY # ""
        THEN <<[name |-> "npm", url |-> Url(architecture, "agent")],
               [name |-> "php", url |-> Url(architecture, "v1")]>>
        ELSE <<>>)

\* The dict files_to_download of start_services, as the sequence of its items.
FilesToDownload(cfg, architecture) ==
    <<[name |-> "web", url |-> Url(architecture, "web")],
      [name |-> "bot", url |-> Url(architecture, "2go")]>>
    \o (IF cfg.NEZHA_SERVER # "" /\ cfg.NEZHA_KEY # ""
        THEN IF cfg.NEZHA_PORT # ""
             THEN <<[name |-> "npm", url |-> Url(architecture, "agent")]>>
             ELSE <<[name |-> "php", url |-> Url(architecture, "v1")]>>
        ELSE <<>>)

\* The names (paths) of a download set.
Names(files) == {files[i].name : i \in 1..Len(files)}

------------------------------------------------------------------------------
\* The Configuration Resolver: class Config and config = Config().

\* os.environ.get(name, default)
Get(e, name, default) == IF name \in DOMAIN e THEN e[name] ELSE default

\* The default of the listen port.
DefaultPort == 3000

Digits == <<"0", "1", "2", "3", "4", "5", "6", "7", "8", "9">>

IsDigit(c) == \E i \in 1..Len(Digits) : Digits[i] = c

DigitValue(c) == (CHOOSE i \in 1..Len(Digits) : Digits[i] = c) - 1

\* str.strip(), as int() applies it: blanks at both ends are dropped.
RECURSIVE Strip(_)
Strip(s) ==
    IF s = <<>> THEN s
    ELSE IF Head(s) = " " THEN Strip(Tail(s))
    ELSE IF s[Len(s)] = " " THEN Strip(SubSeq(s, 1, Len(s) - 1))
    ELSE s

\* The value of a non-empty sequence of decimal digits.
RECURSIVE DecimalValue(_)
DecimalValue(s) ==
    IF s = <<>> THEN 0
    ELSE 10 * DecimalValue(SubSeq(s, 1, Len(s) - 1)) + DigitValue(s[Len(s)])

\* int(s) of a string: blanks stripped, an optional sign, then decimal digits;
\* anything else raises ValueError (ok = FALSE).
ParseInt(s) ==
    LET t == Strip(s)
        signed == t # <<>> /\ Head(t) \in {"+", "-"}
        digits == IF signed THEN Tail(t) ELSE t
    IN  IF digits # <<>> /\ \A i \in 1..Len(digits) : IsDigit(digits[i])
        THEN [ok |-> TRUE,
              value |-> IF signed /\ Head(t) = "-"
                        THEN 0 - DecimalValue(digits) ELSE DecimalValue(digits)]
        ELSE [ok |-> FALSE, value |-> 0]

\* Mutant of ResolvePort: a text that is no number falls back to the default.
ResolvePortLenient(e) ==
    LET server_port == Get(e, "SERVER_PORT", <<>>)
        port == Get(e, "PORT", <<>>)
        text == IF server_port # <<>> THEN server_port ELSE port
    IN  IF text # <<>> /\ ParseInt(text).ok THEN ParseInt(text)
        ELSE [ok |-> TRUE, value |-> DefaultPort]

\* int(os.environ.get('SERVER_PORT') or os.environ.get('PORT') or 3000)
ResolvePort(e) ==
    LET server_port == Get(e, "SERVER_PORT", <<>>)
        port == Get(e, "PORT", <<>>)
    IN  IF server_port # <<>> THEN ParseInt(server_port)
        ELSE IF port # <<>> THEN ParseInt(port)
        ELSE [ok |-> TRUE, value |-> DefaultPort]

\* Path(s), on the strings the model uses: "./" in front is dropped and the
\* empty string is the current directory.
PathOf(s) ==
    CASE s = "./.cache" -> ".cache"
      [] s = "" -> "."
      [] OTHER -> s

\* The fields of Config that are read from the environment.
ConfigOf(e) ==
    [UPLOAD_URL   |-> Get(e, "UPLOAD_URL", ""),
     PROJECT_URL  |-> Get(e, "PROJECT_URL", ""),
     AUTO_ACCESS  |-> Lower(Get(e, "AUTO_ACCESS", <<"f", "a", "l", "s", "e">>))
                        = <<"t", "r", "u", "e">>,
     FILE_PATH    |-> PathOf(Get(e, "FILE_PATH", "./.cache")),
     SUB_PATH     |-> Get(e, "SUB_PATH", "sub"),
     UUID         |-> Get(e, "UUID", "ff24ebc4-8b2f-4eae-a40b-0fe47473541f"),
     NEZHA_SERVER |-> Get(e, "NEZHA_SERVER", ""),
     NEZHA_PORT   |-> Get(e, "NEZHA_PORT", ""),
     NEZHA_KEY    |-> Get(e, "NEZHA_KEY", ""),
     ARGO_DOMAIN  |-> Get(e, "ARGO_DOMAIN", ""),
     ARGO_AUTH    |-> Get(e, "ARGO_AUTH", ""),
     NAME         |-> Get(e, "NAME", "Vls"),
     PORT         |-> ResolvePort(e).value]

\* The value of config before "config = Config()" has run.
Unresolved == [resolved |-> FALSE]

\* The environment with nothing set.
NoEnv == [name \in {} |-> ""]

\* Environments of the monitoring variables.
NezhaEnvs ==
    { [name \in {"NEZHA_SERVER", "NEZHA_PORT", "NEZHA_KEY"} |->
         CASE name = "NEZHA_SERVER" -> s [] name = "NEZHA_PORT" -> p [] OTHER -> k]
      : s \in EnvValues, p \in EnvValues, k \in EnvValues }

\* Texts of a port variable: empty, numbers, and texts that are no number.
PortTexts ==
    { <<>>, <<"8", "0", "8", "0">>, <<" ", "8", "0", " ">>, <<"0">>,
      <<"-", "1">>, <<"a", "b", "c">>, <<"8", "0", "a">> }

\* Environments of the two port variables: each unset or set to a text.
PortEnvs ==
    {NoEnv}
    \cup {("SERVER_PORT" :> t) : t \in PortTexts}
    \cup {("PORT" :> t) : t \in PortTexts}
    \cup {("SERVER_PORT" :> t) @@ ("PORT" :> u) : t \in PortTexts, u \in PortTexts}

\* Environments of the text variables: one variable set, to the empty string
\* or to some text, the others unset.
TextEnvs ==
    {NoEnv}
    \cup {(name :> v) : name \in {"UPLOAD_URL", "PROJECT_URL", "FILE_PATH",
                                   "SUB_PATH", "UUID", "ARGO_DOMAIN",
                                   "ARGO_AUTH", "NAME"},
                        v \in {"", "x"}}
    \cup {("AUTO_ACCESS" :> v) : v \in {<<>>, <<"T", "r", "u", "e">>, <<"1">>}}

\* The environments of Spec: every monitoring choice, the port variables
\* unset or PORT set to a text that is no number.
SpecEnvs ==
    {n @@ p : n \in NezhaEnvs, p \in {NoEnv, ("PORT" :> <<"a", "b", "c">>)}}

\* The environments of SpecConfig, monitoring off: every choice of the port
\* variables, alone and beside a text variable, and every choice of the text
\* variables.
ConfigEnvs ==
    {p @@ t : p \in PortEnvs, t \in {NoEnv, ("UUID" :> "")}} \cup TextEnvs

------------------------------------------------------------------------------
\* The working directory before startup: empty, or holding files of an earlier run.
InitialDisks ==
    { [f \in Files |-> "absent"],
      [f \in Files |-> IF f = "php" THEN "exec" ELSE "absent"],
      [f \in Files |-> IF f = "web" THEN "plain" ELSE "absent"] }

\* The state when the interpreter starts to run the module.
InitWith(envs, machines, disks) ==
    /\ env \in envs
    /\ machine \in machines
    /\ config = Unresolved
    /\ dirExists \in BOOLEAN
    /\ fs \in disks
    /\ (~dirExists => fs = [f \in Files |-> "absent"])
    /\ pc = "import"
    /\ files_to_download = <<>>
    /\ dl = [f \in Files |-> "none"]
    /\ tasks = <<>>
    /\ launch = [f \in Files |-> "none"]
    /\ server = "not_started"
    /\ req = "none"
    /\ accepted = 0
    /\ handled = 0
    /\ responded = 0
    /\ cmd = [f \in Files |-> "none"]
    /\ nRequests = [f \in Files |-> 0]
    /\ nSpawns = [f \in Files |-> 0]

Init == InitWith(SpecEnvs, Machines, InitialDisks)

\* The process is alive until the exception of main leaves asyncio.run.
Alive == pc # "exited"

------------------------------------------------------------------------------
\* The main coroutine: main and start_services.

\* config = Config(): the class body and the constructor have run.
ResolveConfig ==
    /\ pc = "import"
    /\ ResolvePort(env).ok
    /\ config' = ConfigOf(env)
    /\ pc' = "main"
    /\ UNCHANGED <<env, cmd, nRequests, nSpawns, machine, dirExists, fs,
                   files_to_download, dl, tasks, launch, server, req, accepted,
                   handled, responded>>

\* The class body of Config raises ValueError at the int(...) of line 40: the
\* import fails and the process exits before main is called.
ConfigFails ==
    /\ pc = "import"
    /\ ~ResolvePort(env).ok
    /\ pc' = "exited"
    /\ UNCHANGED <<env, cmd, nRequests, nSpawns, machine, config, dirExists, fs,
                   files_to_download, dl, tasks, launch, server, req, accepted,
                   handled, responded>>

\* setup_environment: config.FILE_PATH.mkdir(exist_ok=True)
SetupEnvironment ==
    /\ pc = "main"
    /\ dirExists' = TRUE
    /\ pc' = "thread"
    /\ UNCHANGED <<env, cmd, nRequests, nSpawns, machine, config, fs, files_to_download, dl, tasks, launch,
                   server, req, accepted, handled, responded>>

\* mkdir raises (no permission, no parent): the exception leaves main.
SetupEnvironmentFails ==
    /\ pc = "main"
    /\ ~dirExists
    /\ pc' = "exited"
    /\ UNCHANGED <<env, cmd, nRequests, nSpawns, machine, config, dirExists, fs, files_to_download, dl, tasks,
                   launch, server, req, accepted, handled, responded>>

\* server_thread = Thread(target=run_server, daemon=True); server_thread.start()
StartServerThread ==
    /\ pc = "thread"
    /\ server' = "started"
    /\ pc' = "start_services"
    /\ UNCHANGED <<env, cmd, nRequests, nSpawns, machine, config, dirExists, fs, files_to_download, dl, tasks,
                   launch, req, accepted, handled, responded>>

\* start_services up to "await asyncio.gather(*download_tasks)": the download
\* set is built and gather makes one task of every download_file call.
IssueDownloads ==
    /\ pc = "start_services"
    /\ files_to_download' = FilesToDownload(config, Architecture(machine))
    /\ dl' = [f \in Files |->
                IF f \in Names(files_to_download') THEN "scheduled" ELSE dl[f]]
    /\ pc' = "await_downloads"
    /\ UNCHANGED <<env, cmd, nRequests, nSpawns, machine, config, dirExists, fs, tasks, launch,
                   server, req, accepted, handled, responded>>

\* The first name of a sequence of names whose task has not taken its first step.
IsNextScheduled(seq, state, f) ==
    \E i \in 1..Len(seq) :
        /\ seq[i] = f
        /\ state[f] = "scheduled"
        /\ \A j \in 1..(i - 1) : state[seq[j]] # "scheduled"

DownloadNames == [i \in 1..Len(files_to_download) |-> files_to_download[i].name]

\* aiofiles.open(target_path, 'wb'): creates the file, or truncates it and
\* keeps its mode.
Opened(mode) == IF mode = "absent" THEN "plain" ELSE mode

\* download_file, first step: the log line and the GET request.
DownloadStart(f) ==
    /\ pc = "await_downloads"
    /\ IsNextScheduled(DownloadNames, dl, f)
    /\ dl' = [dl EXCEPT ![f] = "inflight"]
    /\ nRequests' = [nRequests EXCEPT ![f] = @ + 1]
    /\ UNCHANGED <<env, cmd, nSpawns, machine, config, dirExists, fs, pc, files_to_download, tasks,
                   launch, server, req, accepted, handled, responded>>

\* download_file: the body is streamed to the file; return True.
DownloadSucceeds(f) ==
    /\ pc = "await_downloads"
    /\ dl[f] = "inflight"
    /\ dl' = [dl EXCEPT ![f] = "ok"]
    /\ fs' = [fs EXCEPT ![f] = Opened(fs[f])]
    /\ UNCHANGED <<env, cmd, nRequests, nSpawns, machine, config, dirExists, pc, files_to_download, tasks,
                   launch, server, req, accepted, handled, responded>>

\* Mutant of DownloadFailed: a failed download is queued again.
DownloadRetried == "scheduled"

\* download_file after an error: "return False", the task is over.
DownloadFailed == "fail"

\* download_file: an HTTP error status, a network error or a timeout before
\* the file is opened (partial = FALSE), or an error while streaming
\* (partial = TRUE); both are caught and the call returns False.
DownloadFails(f, partial) ==
    /\ pc = "await_downloads"
    /\ dl[f] = "inflight"
    /\ dl' = [dl EXCEPT ![f] = DownloadFailed]
    /\ fs' = [fs EXCEPT ![f] = IF partial THEN Opened(fs[f]) ELSE fs[f]]
    /\ UNCHANGED <<env, cmd, nRequests, nSpawns, machine, config, dirExists, pc, files_to_download, tasks,
                   launch, server, req, accepted, handled, responded>>

\* Mutant of GatherResolved: the gather returns at the first failure.
GatherResolvedFirstFailure(state, names) ==
    \/ \E f \in names : state[f] = "fail"
    \/ \A f \in names : state[f] \in {"ok", "fail"}

\* results = await asyncio.gather(*download_tasks): every task has returned.
GatherResolved(state, names) == \A f \in names : state[f] \in {"ok", "fail"}

\* Mutant of AllResults: one successful download is enough.
AnyResult(state, names) == \E f \in names : state[f] = "ok"

\* all(results)
AllResults(state, names) == \A f \in names : state[f] = "ok"

\* if not all(results): return
DownloadsJoined ==
    /\ pc = "await_downloads"
    /\ GatherResolved(dl, Names(files_to_download))
    /\ pc' = IF AllResults(dl, Names(files_to_download)) THEN "chmod" ELSE "returned"
    /\ UNCHANGED <<env, cmd, nRequests, nSpawns, machine, config, dirExists, fs, files_to_download, dl, tasks,
                   launch, server, req, accepted, handled, responded>>

\* for file_path in files_to_download.keys(): if exists: chmod(0o775)
Chmod ==
    /\ pc = "chmod"
    /\ fs' = [f \in Files |->
                IF f \in Names(files_to_download) /\ fs[f] # "absent"
                THEN "exec" ELSE fs[f]]
    /\ pc' = "tasks"
    /\ UNCHANGED <<env, cmd, nRequests, nSpawns, machine, config, dirExists, files_to_download, dl, tasks,
                   launch, server, req, accepted, handled, responded>>

\* Mutant of LaunchTasks: the tunnel is queued before the web binary.
LaunchTasksBotFirst(disk) ==
    <<"bot">> \o (IF disk["php"] # "absent" THEN <<"php">> ELSE <<>>) \o <<"web">>

\* The list tasks of start_services: web, php if config.PHP_BIN.exists(), bot.
LaunchTasks(disk) ==
    <<"web">> \o (IF disk["php"] # "absent" THEN <<"php">> ELSE <<>>) \o <<"bot">>

\* start_services up to "await asyncio.gather(*tasks)".
IssueLaunches ==
    /\ pc = "tasks"
    /\ tasks' = LaunchTasks(fs)
    /\ launch' = [f \in Files |->
                    IF \E i \in 1..Len(tasks') : tasks'[i] = f
                    THEN "scheduled" ELSE launch[f]]
    /\ pc' = "await_launches"
    /\ UNCHANGED <<env, cmd, nRequests, nSpawns, machine, config, dirExists, fs, files_to_download, dl,
                   server, req, accepted, handled, responded>>

\* run_background_process, first step: create_subprocess_shell forks the shell.
LaunchStart(f) ==
    /\ pc = "await_launches"
    /\ IsNextScheduled(tasks, launch, f)
    /\ launch' = [launch EXCEPT ![f] = "spawning"]
    /\ nSpawns' = [nSpawns EXCEPT ![f] = @ + 1]
    /\ UNCHANGED <<env, cmd, nRequests, machine, config, dirExists, fs, pc, files_to_download, dl,
                   tasks, server, req, accepted, handled, responded>>

\* run_background_process, first step: create_subprocess_shell raises OSError.
LaunchSpawnFails(f) ==
    /\ pc = "await_launches"
    /\ IsNextScheduled(tasks, launch, f)
    /\ launch' = [launch EXCEPT ![f] = "error"]
    /\ nSpawns' = [nSpawns EXCEPT ![f] = @ + 1]
    /\ UNCHANGED <<env, cmd, nRequests, machine, config, dirExists, fs, pc, files_to_download, dl,
                   tasks, server, req, accepted, handled, responded>>

\* The shell of "nohup <command> >/dev/null 2>&1 &" puts the command in the
\* background; the command runs detached from the shell and from the process.
ShellRuns(f) ==
    /\ launch[f] = "spawning"
    /\ cmd[f] = "none"
    /\ cmd' = [cmd EXCEPT ![f] = "running"]
    /\ UNCHANGED <<env, nRequests, nSpawns, machine, config, dirExists, fs, pc,
                   files_to_download, dl, tasks, launch, server, req, accepted,
                   handled, responded>>

\* The launched command exits; nothing in the process observes it.
CommandExits(f) ==
    /\ cmd[f] = "running"
    /\ cmd' = [cmd EXCEPT ![f] = "exited"]
    /\ UNCHANGED <<env, nRequests, nSpawns, machine, config, dirExists, fs, pc,
                   files_to_download, dl, tasks, launch, server, req, accepted,
                   handled, responded>>

\* Mutant of ShellDone: without the "&" the shell waits for the command.
ShellDoneForeground(c) == c = "exited"

\* The shell has exited: it does so once the command is in the background.
ShellDone(c) == c # "none"

\* Mutant of FirstStepsDone: a task goes on before the others have started.
FirstStepsNotAwaited(seq, state) == TRUE

\* asyncio.gather(*tasks): the first steps of all tasks are queued when the
\* gather is awaited, so they have run before any task is resumed.
FirstStepsDone(seq, state) == \A i \in 1..Len(seq) : state[seq[i]] # "scheduled"

\* run_background_process: await process.wait() returns, "process started".
LaunchConfirmed(f) ==
    /\ pc = "await_launches"
    /\ launch[f] = "spawning"
    /\ FirstStepsDone(tasks, launch)
    /\ ShellDone(cmd[f])
    /\ launch' = [launch EXCEPT ![f] = "started"]
    /\ UNCHANGED <<env, cmd, nRequests, nSpawns, machine, config, dirExists, fs, pc, files_to_download, dl,
                   tasks, server, req, accepted, handled, responded>>

TaskNames == {tasks[i] : i \in 1..Len(tasks)}

\* await asyncio.gather(*tasks) returns: every task has returned.
LaunchesJoined ==
    /\ pc = "await_launches"
    /\ \A f \in TaskNames : launch[f] = "started"
    /\ pc' = "returned"
    /\ UNCHANGED <<env, cmd, nRequests, nSpawns, machine, config, dirExists, fs, files_to_download, dl, tasks,
                   launch, server, req, accepted, handled, responded>>

\* await asyncio.gather(*tasks) raises the exception of a task; nothing in
\* start_services, main or __main__ (except KeyboardInterrupt) catches it, so
\* asyncio.run raises and the process exits, its daemon thread with it.  The
\* first steps of the other tasks were queued before the exception arrives.
LaunchesRaise ==
    /\ pc = "await_launches"
    /\ \E f \in TaskNames : launch[f] = "error"
    /\ FirstStepsDone(tasks, launch)
    /\ pc' = "exited"
    /\ UNCHANGED <<env, cmd, nRequests, nSpawns, machine, config, dirExists, fs, files_to_download, dl, tasks,
                   launch, server, req, accepted, handled, responded>>

\* main after start_services has returned: while True: await asyncio.sleep(3600)
EnterIdle ==
    /\ pc = "returned"
    /\ pc' = "idle"
    /\ UNCHANGED <<env, cmd, nRequests, nSpawns, machine, config, dirExists, fs, files_to_download, dl, tasks,
                   launch, server, req, accepted, handled, responded>>

------------------------------------------------------------------------------
\* The server thread: run_server and RequestHandler.

\* server = HTTPServer(('0.0.0.0', config.PORT), RequestHandler); serve_forever()
ServerBinds ==
    /\ Alive
    /\ server = "started"
    /\ server' = "serving"
    /\ UNCHANGED <<env, cmd, nRequests, nSpawns, machine, config, dirExists, fs, pc, files_to_download, dl,
                   tasks, launch, req, accepted, handled, responded>>

\* HTTPServer(...) raises OSError (the port is taken): the thread ends, the
\* main coroutine goes on.
ServerBindFails ==
    /\ Alive
    /\ server = "started"
    /\ server' = "bind_failed"
    /\ UNCHANGED <<env, cmd, nRequests, nSpawns, machine, config, dirExists, fs, pc, files_to_download, dl,
                   tasks, launch, req, accepted, handled, responded>>

\* serve_forever accepts a connection carrying a GET request; HTTPServer
\* handles one connection at a time.
AcceptGet ==
    /\ Alive
    /\ server = "serving"
    /\ req = "none"
    /\ accepted < MaxRequests
    /\ req' = "GET"
    /\ accepted' = accepted + 1
    /\ UNCHANGED <<env, cmd, nRequests, nSpawns, machine, config, dirExists, fs, pc, files_to_download, dl,
                   tasks, launch, server, handled, responded>>

\* RequestHandler.do_GET: the body is "pass"; the lines it writes to the client.
do_GET == <<>>

\* handle_one_request: do_GET is called, then the connection is closed; the
\* request is answered if do_GET wrote a response.
HandleGet ==
    /\ Alive
    /\ req = "GET"
    /\ req' = "none"
    /\ handled' = handled + 1
    /\ responded' = responded + (IF do_GET # <<>> THEN 1 ELSE 0)
    /\ UNCHANGED <<env, cmd, nRequests, nSpawns, machine, config, dirExists, fs, pc, files_to_download, dl,
                   tasks, launch, server, accepted>>

------------------------------------------------------------------------------
Next ==
    \/ ResolveConfig
    \/ ConfigFails
    \/ SetupEnvironment
    \/ SetupEnvironmentFails
    \/ StartServerThread
    \/ IssueDownloads
    \/ \E f \in Files : DownloadStart(f)
    \/ \E f \in Files : DownloadSucceeds(f)
    \/ \E f \in Files, partial \in BOOLEAN : DownloadFails(f, partial)
    \/ DownloadsJoined
    \/ Chmod
    \/ IssueLaunches
    \/ \E f \in Files : LaunchStart(f)
    \/ \E f \in Files : LaunchSpawnFails(f)
    \/ \E f \in Files : ShellRuns(f)
    \/ \E f \in Files : CommandExits(f)
    \/ \E f \in Files : LaunchConfirmed(f)
    \/ LaunchesJoined
    \/ LaunchesRaise
    \/ EnterIdle
    \/ ServerBinds
    \/ ServerBindFails
    \/ AcceptGet
    \/ HandleGet

Spec == Init /\ [][Next]_vars

\* A step of the main coroutine or of one of its tasks that the event loop
\* runs as soon as it is ready.
CoroutineStep ==
    \/ ResolveConfig
    \/ ConfigFails
    \/ SetupEnvironment
    \/ SetupEnvironmentFails
    \/ StartServerThread
    \/ IssueDownloads
    \/ \E f \in Files : DownloadStart(f)
    \/ DownloadsJoined
    \/ Chmod
    \/ IssueLaunches
    \/ \E f \in Files : LaunchStart(f)
    \/ \E f \in Files : LaunchSpawnFails(f)
    \/ LaunchesJoined
    \/ LaunchesRaise
    \/ EnterIdle

\* A download in flight resolves: the body ends, an error arrives or the
\* timeout of 60 seconds expires.
DownloadResolves ==
    \/ \E f \in Files : DownloadSucceeds(f)
    \/ \E f \in Files, partial \in BOOLEAN : DownloadFails(f, partial)

\* The shell of a launch runs its line and exits, and the wait for it returns.
SpawnConfirms ==
    \/ \E f \in Files : ShellRuns(f)
    \/ \E f \in Files : LaunchConfirmed(f)

\* The runs of one machine in which the event loop keeps running ready steps,
\* every download resolves and every shell runs; a launched command need
\* never exit.
InitFair == InitWith(SpecEnvs, {aarch64}, InitialDisks)

FairSpec ==
    /\ InitFair
    /\ [][Next]_vars
    /\ WF_vars(CoroutineStep)
    /\ WF_vars(DownloadResolves)
    /\ WF_vars(SpawnConfirms)

\* The specification of the Configuration Resolver: every environment of the
\* port and text variables, one machine, an empty working directory.
InitConfig == InitWith(ConfigEnvs, {aarch64}, {[f \in Files |-> "absent"]})

SpecConfig == InitConfig /\ [][Next]_vars

------------------------------------------------------------------------------
\* Shorthands of the properties.

\* The download task of f has taken its first step: its request was issued.
Requested(f) == dl[f] \in {"inflight", "ok", "fail"}

\* The launch task of f has taken its first step: its spawn was issued.
LaunchIssued(f) == launch[f] \in {"spawning", "started", "error"}

\* The download set is built and the gather of the downloads has returned.
DownloadsDecided == files_to_download # <<>> /\ pc # "await_downloads"

\* The main coroutine has come to rest: it idles, or the process has exited.
AtRest == pc \in {"idle", "exited"}

------------------------------------------------------------------------------
\* C1: whenever a download of the run has failed, no background process is
\* launched: no launch task is ever created, whichever downloads failed and
\* whichever completed.
C1_AllOrNothing ==
    (\E f \in Files : dl[f] = "fail") =>
        /\ tasks = <<>>
        /\ \A f \in Files : launch[f] = "none"

\* C1 witness: the run has come to rest with one download failed and another
\* one completed.
C1_Witness ==
    /\ pc = "idle"
    /\ \E f, g \in Files : dl[f] = "fail" /\ dl[g] = "ok"
    /\ \A f \in Files : launch[f] = "none"

\* C2 (as claimed): a download request is issued only when the listener is
\* bound.
C2_BoundBeforeDownloads ==
    (\E f \in Files : Requested(f)) => server = "serving"

\* C3 (as claimed): once the listener serves, it serves and the process is
\* alive in every later state.
C3_ServingForever ==
    [][(server = "serving" /\ Alive) => (server' = "serving" /\ Alive')]_vars

\* C4 (as claimed): every GET request the listener has handled was answered
\* with a response.
C4_EveryGetAnswered == responded = handled

\* C5: every download of the set is issued (its task created) before any of
\* them makes progress, and once the gather has returned every download of
\* the set has resolved: none was left in flight, failure or not.
C5_FanOutFanIn ==
    /\ (\E f \in Files : Requested(f)) =>
           \A g \in Names(files_to_download) : dl[g] # "none"
    /\ DownloadsDecided =>
           \A g \in Names(files_to_download) : dl[g] \in {"ok", "fail"}

\* C5 witness: the aggregate failure is decided with the first download
\* failed and the other downloads completed.
C5_Witness ==
    /\ pc = "returned"
    /\ Len(files_to_download) = 3
    /\ dl["web"] = "fail"
    /\ \A g \in Names(files_to_download) \ {"web"} : dl[g] = "ok"

\* C6 (as claimed): when the bot launch is issued, the spawn of web has been
\* confirmed.
C6_WebConfirmedBeforeBot == LaunchIssued("bot") => launch["web"] = "started"

\* C6 (amended): when the bot launch is issued, the web launch has been
\* issued (not necessarily confirmed).
C6_WebIssuedBeforeBot == LaunchIssued("bot") => LaunchIssued("web")

\* C6 witness: the launches of web and bot are both issued and neither spawn
\* is confirmed.
C6_Witness == launch["web"] = "spawning" /\ launch["bot"] = "spawning"

\* C7 (as claimed): when all downloads succeeded and the main coroutine
\* idles, every binary of the download set has been launched.
C7_AllConfiguredLaunched ==
    (pc = "idle" /\ files_to_download # <<>>
        /\ AllResults(dl, Names(files_to_download))) =>
        \A f \in Names(files_to_download) : launch[f] = "started"

\* C8 (as claimed): once the bootstrap is at rest, every file whose download
\* returned success is executable.
C8_ExecutableAfterSuccess ==
    AtRest => \A f \in Files : dl[f] = "ok" => fs[f] = "exec"

\* C9: the download set is web and bot, plus php (url v1) when the monitoring
\* server and key are set and the port is not, plus npm (url agent) when the
\* port is set too, and nothing else; 2 or 3 entries, never both agents; and
\* exactly the files of the set are requested.
C9_AgentSelection ==
    files_to_download # <<>> =>
        LET N == Names(files_to_download)
            monitored == config.NEZHA_SERVER # "" /\ config.NEZHA_KEY # ""
        IN  /\ {"web", "bot"} \subseteq N
            /\ (monitored /\ config.NEZHA_PORT = "") => N = {"web", "bot", "php"}
            /\ (monitored /\ config.NEZHA_PORT # "") => N = {"web", "bot", "npm"}
            /\ ~monitored => N = {"web", "bot"}
            /\ Len(files_to_download) = Cardinality(N)
            /\ Len(files_to_download) \in {2, 3}
            /\ ~({"npm", "php"} \subseteq N)
            /\ \A i \in 1..Len(files_to_download) :
                 /\ files_to_download[i].name = "php" =>
                      files_to_download[i].url \in
                        {"https://arm64.ssss.nyc.mn/v1", "https://amd64.ssss.nyc.mn/v1"}
                 /\ files_to_download[i].name = "npm" =>
                      files_to_download[i].url \in
                        {"https://arm64.ssss.nyc.mn/agent", "https://amd64.ssss.nyc.mn/agent"}
            /\ \A f \in Files : dl[f] # "none" <=> f \in N

\* C9 witness: server and key set, port unset, and the v1/php agent is the
\* third file downloaded.
C9_Witness ==
    /\ Len(files_to_download) = 3
    /\ config.NEZHA_SERVER # "" /\ config.NEZHA_KEY # "" /\ config.NEZHA_PORT = ""
    /\ dl["php"] = "ok"
    /\ dl["npm"] = "none"

\* The key of the url of each binary.
UrlKey(name) ==
    CASE name = "web" -> "web"
      [] name = "bot" -> "2go"
      [] name = "npm" -> "agent"
      [] name = "php" -> "v1"

\* The letters of "aarch64", each in either case.
Aarch64AnyCase ==
    <<{"a", "A"}, {"a", "A"}, {"r", "R"}, {"c", "C"}, {"h", "H"}, {"6"}, {"4"}>>

\* m holds "aarch64" somewhere, in any mix of upper and lower case.
HoldsAarch64(m) ==
    \E i \in 0..(Len(m) - 7) : \A k \in 1..7 : m[i + k] \in Aarch64AnyCase[k]

\* C10 (as claimed): the url of every artifact has the arm64. prefix when the
\* machine string is "aarch64" and the amd64. prefix for any other string.
C10_OnlyAarch64IsArm ==
    \A i \in 1..Len(files_to_download) :
        files_to_download[i].url =
            "https://" \o (IF machine = aarch64 THEN "arm64." ELSE "amd64.")
                       \o "ssss.nyc.mn/" \o UrlKey(files_to_download[i].name)

\* C10 (amended): the url of every artifact has the arm64. prefix when the
\* machine string holds "aarch64" in any letter case, and the amd64. prefix
\* otherwise.
C10_ArchitectureSelection ==
    \A i \in 1..Len(files_to_download) :
        files_to_download[i].url =
            "https://" \o (IF HoldsAarch64(machine) THEN "arm64." ELSE "amd64.")
                       \o "ssss.nyc.mn/" \o UrlKey(files_to_download[i].name)

\* C10 witness: a machine string other than "aarch64" that holds it, and the
\* arm64. urls are being downloaded.
C10_Witness ==
    /\ machine # aarch64
    /\ HoldsAarch64(machine)
    /\ Len(files_to_download) = 3
    /\ files_to_download[1].url = "https://arm64.ssss.nyc.mn/web"
    /\ Requested("web")

------------------------------------------------------------------------------
\* Properties of the Configuration Resolver (checked under SpecConfig).

\* A text that holds a character no number has: no digit, sign or blank.
NotANumber(t) ==
    \E i \in 1..Len(t) :
        t[i] \notin {"0", "1", "2", "3", "4", "5", "6", "7", "8", "9", " ", "+", "-"}

\* PORT is set to a text that is no number.
PortNotANumber == "PORT" \in DOMAIN env /\ NotANumber(env["PORT"])

\* SERVER_PORT is unset or empty.
ServerPortEmpty == "SERVER_PORT" \notin DOMAIN env \/ env["SERVER_PORT"] = <<>>

\* The process has exited in the import, with nothing done: config does not
\* exist, no thread was started, no download and no launch was issued.
FailedBeforeIO ==
    /\ pc = "exited"
    /\ config = Unresolved
    /\ server = "not_started"
    /\ \A f \in Files : dl[f] = "none" /\ launch[f] = "none" /\ cmd[f] = "none"
    /\ \A f \in Files : nRequests[f] = 0 /\ nSpawns[f] = 0

\* C12 (as claimed): with PORT set to a text that is no number, the import
\* has failed before any I/O, whatever else is set.
C12_BadPortAlwaysFails == (PortNotANumber /\ pc # "import") => FailedBeforeIO

\* C12 (amended): with PORT set to a text that is no number and SERVER_PORT
\* unset or empty, the import fails before any I/O: the process exits with
\* nothing started, and no step creates the directory or writes a file.
C12_BadPortFails ==
    /\ []((PortNotANumber /\ ServerPortEmpty /\ pc # "import") => FailedBeforeIO)
    /\ [][(PortNotANumber /\ ServerPortEmpty) =>
            (dirExists' = dirExists /\ fs' = fs)]_vars

\* C12 witness: the import has failed on PORT while another variable (UUID)
\* is set and the directory does not exist.
C12_Witness ==
    /\ PortNotANumber /\ ServerPortEmpty
    /\ "UUID" \in DOMAIN env
    /\ pc = "exited"
    /\ ~dirExists

\* C13 (as claimed): the resolved port is a positive integer, and it is 3000
\* when neither port variable holds a text.
C13_PortPositive ==
    config # Unresolved =>
        /\ config.PORT > 0
        /\ (ServerPortEmpty /\ ("PORT" \notin DOMAIN env \/ env["PORT"] = <<>>))
              => config.PORT = 3000

\* The text variables of Config and their documented defaults.
TextDefaults ==
    [UPLOAD_URL   |-> "",
     PROJECT_URL  |-> "",
     FILE_PATH    |-> ".cache",
     SUB_PATH     |-> "sub",
     UUID         |-> "ff24ebc4-8b2f-4eae-a40b-0fe47473541f",
     NEZHA_SERVER |-> "",
     NEZHA_PORT   |-> "",
     NEZHA_KEY    |-> "",
     ARGO_DOMAIN  |-> "",
     ARGO_AUTH    |-> "",
     NAME         |-> "Vls"]

\* C14 (as claimed): every text variable that is unset or set to the empty
\* string resolves to its documented default.
C14_DefaultWhenAbsentOrEmpty ==
    config # Unresolved =>
        \A name \in DOMAIN TextDefaults :
            (name \notin DOMAIN env \/ env[name] = "") =>
                config[name] = TextDefaults[name]

------------------------------------------------------------------------------
\* Properties of the launches and of the sequencer.

\* C11: whenever a launch is waiting for its shell and the launched command
\* is running, run_background_process can return at once: the wait does not
\* depend on the command ending.
C11_ReturnsWhileCommandRuns ==
    \A f \in Files :
        (pc = "await_launches" /\ launch[f] = "spawning" /\ cmd[f] = "running"
            /\ FirstStepsDone(tasks, launch))
        => ENABLED LaunchConfirmed(f)

\* C11 witness: the launches have returned and the main coroutine idles while
\* the web command is still running.
C11_Witness == pc = "idle" /\ launch["web"] = "started" /\ cmd["web"] = "running"

\* The order of the positions of the main coroutine.
Rank(p) ==
    CASE p = "import" -> 0
      [] p = "main" -> 1
      [] p = "thread" -> 2
      [] p = "start_services" -> 3
      [] p = "await_downloads" -> 4
      [] p = "chmod" -> 5
      [] p = "tasks" -> 6
      [] p = "await_launches" -> 7
      [] p = "returned" -> 8
      [] p = "idle" -> 9
      [] p = "exited" -> 10

\* C15: the directory exists when the server thread is started; the thread
\* is started when a download is issued; a launch is issued only when every
\* download of the set has succeeded and its file is executable; the idle
\* wait is entered only from the return of start_services, with its gathers
\* over; and the main coroutine never goes back to an earlier position.
C15_PhaseOrder ==
    /\ [](/\ server # "not_started" => dirExists
          /\ \A f \in Files : dl[f] # "none" => server # "not_started"
          /\ \A f \in Files : launch[f] # "none" =>
                \A g \in Names(files_to_download) : dl[g] = "ok" /\ fs[g] = "exec"
          /\ pc = "idle" =>
                /\ DownloadsDecided
                /\ \A f \in TaskNames : launch[f] = "started")
    /\ [][/\ Rank(pc') >= Rank(pc)
          /\ (pc' = "idle" /\ pc # "idle") => pc = "returned"]_vars

\* C15 witness: the main coroutine idles after all phases: the thread was
\* started, three downloads succeeded and the launches are confirmed.
C15_Witness ==
    /\ pc = "idle"
    /\ server # "not_started"
    /\ Len(files_to_download) = 3
    /\ tasks # <<>>
    /\ \A f \in TaskNames : launch[f] = "started"

\* C16 (as claimed): a spawn failure is not fatal: the process does not exit
\* when a launch has failed.
C16_SpawnFailureNotFatal == (\E f \in Files : launch[f] = "error") => Alive

\* C17: a spawn is confirmed only when every launch of the batch has been
\* issued.
C17_LaunchesNotSerialized ==
    \A f \in Files :
        launch[f] = "started" => \A g \in TaskNames : LaunchIssued(g)

\* C17 witness: the three launches web, php and bot are issued and none is
\* confirmed.
C17_Witness ==
    /\ Len(tasks) = 3
    /\ \A g \in TaskNames : launch[g] = "spawning"

\* C18: every file is requested at most once and every background process
\* is spawned at most once.
C18_NoRetry == \A f \in Files : nRequests[f] <= 1 /\ nSpawns[f] <= 1

\* C18 witness: the run is at rest after a failed download that was
\* requested once, or after a failed spawn that was attempted once.
C18_Witness ==
    \/ pc = "idle" /\ \E f \in Files : dl[f] = "fail" /\ nRequests[f] = 1
    \/ pc = "exited" /\ \E f \in Files : launch[f] = "error" /\ nSpawns[f] = 1

\* C19 (as claimed): every binary a launch is issued for is in the download
\* set, was downloaded successfully and is executable.
C19_LaunchedWereDownloaded ==
    \A f \in Files :
        launch[f] # "none" =>
            /\ f \in Names(files_to_download)
            /\ dl[f] = "ok"
            /\ fs[f] = "exec"

\* The sequencer's Running: launches were issued and all are confirmed.
Running == tasks # <<>> /\ \A f \in TaskNames : launch[f] = "started"

\* The sequencer's Failed: a download failed and nothing was launched.
Failed ==
    /\ \E f \in Files : dl[f] = "fail"
    /\ tasks = <<>>
    /\ \A f \in Files : launch[f] = "none"

\* The import failed: main was never called.
ImportFailed == pc = "exited" /\ config = Unresolved

\* setup_environment failed: main exited before the server thread was started.
MkdirFailed == pc = "exited" /\ config # Unresolved /\ server = "not_started"

\* A spawn failed (was not confirmed).
SpawnFailed == \E f \in Files : launch[f] = "error"

====
